---- MODULE Spec2Model ----
(***************************************************************************)
(* Motion-activated reaction game (final snapshot, lives version).         *)
(* The model follows the module-level state of the program and the         *)
(* functions startCamera, startRound, endRound, maybeAdvanceGameClock,     *)
(* processFrame, checkVirtualButtons and drawVirtualButtons.               *)
(*                                                                         *)
(* performance.now() is a monotonic clock of the environment: `clock` is   *)
(* the last value the program read, and every read returns a value that is *)
(* at least the previous one.  A frame pair is represented by what         *)
(* checkVirtualButtons derives from its motion mask: the number of motion  *)
(* pixels inside each button's rectangle.                                  *)
(*                                                                         *)
(* SpecFrame follows one tick on the pixels of two frames, SpecSeq the     *)
(* identity of the frames from tick to tick (SpecSeqFair with ticks that   *)
(* keep coming), and SpecPre the cooldown of the snapshots without game    *)
(* mode.                                                                   *)
(***************************************************************************)
EXTENDS Integers, Sequences, FiniteSets, TLC

\* ---------------------------------------------------------------- constants
ROUND_MS == 2000
FLASH_MS == 500
MAX_HP == 3
BUTTON_SIZE == 84
THRESHOLD_NUM == 15
THRESHOLD_DEN == 100
NumButtons == 3
NULL == -1
COOLDOWN_MS == 600

Buttons == 0 .. (NumButtons - 1)

\* buttons[idx].action, for every button.
Actions == {"capture", "grayscale", "save"}

\* ------------------------------------------------------------------- bounds
\* Last clock value explored.
MaxTime == 7700

\* Time that passes between two ticks, and between two reads of
\* performance.now() inside one tick.
TickDeltas == {0, 500, 1999}
CallDeltas == {0, 500}

\* Value of performance.now() when startCamera starts the first round.
CameraDelays == {120}

\* Motion-pixel counts a region can show: around the 15% boundary of
\* 84 * 84 = 7056 pixels (1058.4).
MotionCounts == {1058, 1059}

\* The motion counts of the three regions in one tick: every combination
\* during an active round, all regions alike outside of it (where the hit
\* test runs but records nothing).
RoundCounts == [Buttons -> MotionCounts]
OffRoundCounts == {[i \in Buttons |-> c] : c \in MotionCounts}

\* Frame widths video.videoWidth can report (0: no video data yet).
VideoWidths == {0, 640}

VARIABLES
    pc,                 \* "init" | "running" | "failed": progress of startCamera
    pending,            \* processFrame callbacks requestAnimationFrame holds
    clock,              \* last value returned by performance.now()
    videoWidth,         \* video.videoWidth seen by the last processFrame
    previousFrame,      \* NULL or the width of the stored frame
    lastCaptureCanvas,  \* NULL or the number of the last capture in the gallery
    \* frame contents (followed by the frame-level specification only)
    video,              \* the frame the video element shows, NULL: not followed
    previousData,       \* the ImageData held by previousFrame
    diffArgs,           \* <<prev, curr>> of the last detectMotion call
    motionCounts,       \* motionCount of every button in the last checkVirtualButtons
    hp,
    gameOver,
    roundActive,
    roundEndsAt,
    targetIndex,
    hitRecorded,
    flashingTarget,
    flashEndsAt,
    flashColor,
    lastActivatedIndex,
    \* observations of the last processFrame invocation
    calls,              \* transition functions it called, in order
    tickNow,            \* `now` read by its maybeAdvanceGameClock (NULL: not run)
    tested,             \* it ran checkVirtualButtons
    exceeded,           \* regions whose ratio exceeded THRESHOLD in its checkVirtualButtons
    tinted,             \* button drawVirtualButtons filled with the flash tint (NULL: none)
    triggered,          \* actions (capture / grayscale / save) it triggered
    \* history of the session
    targetSeen,         \* the target was over the threshold in some tick of the current round
    misses,             \* rounds that ended with another last-activated region than the target
    hits,               \* rounds that ended with the target as last-activated region
    \* cooldown of the snapshots without game mode
    lastTriggerAt,      \* lastTriggerAt[action], NULL: undefined
    readAt              \* performance.now() read for each button in the last hit test

gameVars == <<hp, gameOver, roundActive, roundEndsAt, targetIndex, hitRecorded,
              flashingTarget, flashEndsAt, flashColor, lastActivatedIndex>>
obsVars == <<calls, tickNow, tested, exceeded, tinted, triggered, targetSeen, misses, hits>>
frameVars == <<video, previousData, diffArgs, motionCounts>>
triggerVars == <<lastTriggerAt, readAt>>
vars == <<pc, pending, clock, videoWidth, previousFrame, lastCaptureCanvas,
          frameVars, gameVars, obsVars, triggerVars>>

\* The state a processFrame invocation starts from, as one value, so that the
\* functions below are operators from state to state.
GameState ==
    [clock |-> clock, hp |-> hp, gameOver |-> gameOver, roundActive |-> roundActive,
     roundEndsAt |-> roundEndsAt, targetIndex |-> targetIndex,
     hitRecorded |-> hitRecorded, flashingTarget |-> flashingTarget,
     flashEndsAt |-> flashEndsAt, flashColor |-> flashColor,
     lastActivatedIndex |-> lastActivatedIndex,
     lastCaptureCanvas |-> lastCaptureCanvas,
     calls |-> <<>>, tickNow |-> NULL, tested |-> FALSE, exceeded |-> {},
     tinted |-> NULL,
     triggered |-> <<>>, targetSeen |-> targetSeen]

\* ---------------------------------------------------------------- game flow
\* startRound() as before lives existed: no game-over return.
startRound_NoGuard(g, now, r) ==
    [g EXCEPT !.roundActive = TRUE,
              !.hitRecorded = FALSE,
              !.lastActivatedIndex = NULL,
              !.targetIndex = r,
              !.roundEndsAt = now + ROUND_MS,
              !.clock = now,
              !.flashingTarget = NULL,
              !.flashColor = "null",
              !.calls = Append(@, "startRound"),
              !.targetSeen = FALSE]

\* startRound() that keeps the last activated region of the round before.
startRound_KeepLast(g, now, r) ==
    IF g.gameOver THEN [g EXCEPT !.calls = Append(@, "startRound")]
    ELSE [g EXCEPT !.roundActive = TRUE,
                   !.hitRecorded = FALSE,
                   !.targetIndex = r,
                   !.roundEndsAt = now + ROUND_MS,
                   !.clock = now,
                   !.flashingTarget = NULL,
                   !.flashColor = "null",
                   !.calls = Append(@, "startRound"),
                   !.targetSeen = FALSE]

\* startRound(); now is its read of performance.now(), r its random target.
startRound(g, now, r) ==
    IF g.gameOver THEN [g EXCEPT !.calls = Append(@, "startRound")]
    ELSE [g EXCEPT !.roundActive = TRUE,
                   !.hitRecorded = FALSE,
                   !.lastActivatedIndex = NULL,
                   !.targetIndex = r,
                   !.roundEndsAt = now + ROUND_MS,
                   !.clock = now,
                   !.flashingTarget = NULL,
                   !.flashColor = "null",
                   !.calls = Append(@, "startRound"),
                   !.targetSeen = FALSE]

\* endRound() with the life test inverted: a hit costs the life.
endRound_LifeOnHit(g, now) ==
    LET hit == (g.lastActivatedIndex = g.targetIndex)
        g1 == [g EXCEPT !.roundActive = FALSE,
                        !.hitRecorded = hit,
                        !.flashingTarget = g.targetIndex,
                        !.flashColor = IF hit THEN "success" ELSE "fail",
                        !.flashEndsAt = now + FLASH_MS,
                        !.clock = now,
                        !.calls = Append(@, "endRound")]
    IN  IF hit
        THEN [g1 EXCEPT !.hp = g.hp - 1,
                        !.gameOver = IF g.hp - 1 = 0 THEN TRUE ELSE g.gameOver]
        ELSE g1

\* endRound() testing hp for the game over before the decrement.
endRound_EarlyGameOver(g, now) ==
    LET hit == (g.lastActivatedIndex = g.targetIndex)
        g1 == [g EXCEPT !.roundActive = FALSE,
                        !.hitRecorded = hit,
                        !.flashingTarget = g.targetIndex,
                        !.flashColor = IF hit THEN "success" ELSE "fail",
                        !.flashEndsAt = now + FLASH_MS,
                        !.clock = now,
                        !.calls = Append(@, "endRound")]
    IN  IF ~hit
        THEN [g1 EXCEPT !.hp = g.hp - 1,
                        !.gameOver = IF g.hp - 1 = 1 THEN TRUE ELSE g.gameOver]
        ELSE g1

\* endRound() with the hit decided as in the snapshot without lives: the
\* target was active in some tick of the round.
endRound_AnyTick(g, now) ==
    LET hit == g.targetSeen
        g1 == [g EXCEPT !.roundActive = FALSE,
                        !.hitRecorded = hit,
                        !.flashingTarget = g.targetIndex,
                        !.flashColor = IF hit THEN "success" ELSE "fail",
                        !.flashEndsAt = now + FLASH_MS,
                        !.clock = now,
                        !.calls = Append(@, "endRound")]
    IN  IF ~hit
        THEN [g1 EXCEPT !.hp = g.hp - 1,
                        !.gameOver = IF g.hp - 1 = 0 THEN TRUE ELSE g.gameOver]
        ELSE g1

\* endRound() with the two flash colours swapped.
endRound_SwappedColor(g, now) ==
    LET hit == (g.lastActivatedIndex = g.targetIndex)
        g1 == [g EXCEPT !.roundActive = FALSE,
                        !.hitRecorded = hit,
                        !.flashingTarget = g.targetIndex,
                        !.flashColor = IF hit THEN "fail" ELSE "success",
                        !.flashEndsAt = now + FLASH_MS,
                        !.clock = now,
                        !.calls = Append(@, "endRound")]
    IN  IF ~hit
        THEN [g1 EXCEPT !.hp = g.hp - 1,
                        !.gameOver = IF g.hp - 1 = 0 THEN TRUE ELSE g.gameOver]
        ELSE g1

\* endRound() that does not name the flashing target.
endRound_NoFlashTarget(g, now) ==
    LET hit == (g.lastActivatedIndex = g.targetIndex)
        g1 == [g EXCEPT !.roundActive = FALSE,
                        !.hitRecorded = hit,
                        !.flashColor = IF hit THEN "success" ELSE "fail",
                        !.flashEndsAt = now + FLASH_MS,
                        !.clock = now,
                        !.calls = Append(@, "endRound")]
    IN  IF ~hit
        THEN [g1 EXCEPT !.hp = g.hp - 1,
                        !.gameOver = IF g.hp - 1 = 0 THEN TRUE ELSE g.gameOver]
        ELSE g1

\* endRound() flashing the region that was activated last instead of the
\* target.
endRound_FlashLast(g, now) ==
    LET hit == (g.lastActivatedIndex = g.targetIndex)
        g1 == [g EXCEPT !.roundActive = FALSE,
                        !.hitRecorded = hit,
                        !.flashingTarget = IF g.lastActivatedIndex # NULL
                                           THEN g.lastActivatedIndex
                                           ELSE g.targetIndex,
                        !.flashColor = IF hit THEN "success" ELSE "fail",
                        !.flashEndsAt = now + FLASH_MS,
                        !.clock = now,
                        !.calls = Append(@, "endRound")]
    IN  IF ~hit
        THEN [g1 EXCEPT !.hp = g.hp - 1,
                        !.gameOver = IF g.hp - 1 = 0 THEN TRUE ELSE g.gameOver]
        ELSE g1

\* endRound(); now is its read of performance.now().
endRound(g, now) ==
    LET hit == (g.lastActivatedIndex = g.targetIndex)
        g1 == [g EXCEPT !.roundActive = FALSE,
                        !.hitRecorded = hit,
                        !.flashingTarget = g.targetIndex,
                        !.flashColor = IF hit THEN "success" ELSE "fail",
                        !.flashEndsAt = now + FLASH_MS,
                        !.clock = now,
                        !.calls = Append(@, "endRound")]
    IN  IF ~hit
        THEN [g1 EXCEPT !.hp = g.hp - 1,
                        !.gameOver = IF g.hp - 1 = 0 THEN TRUE ELSE g.gameOver]
        ELSE g1

\* maybeAdvanceGameClock() as before lives existed: no game-over tests.
maybeAdvanceGameClock_NoGuard(g, now, t, r) ==
    LET g0 == [g EXCEPT !.clock = now, !.tickNow = now]
        g1 == IF g0.roundActive /\ now >= g0.roundEndsAt
              THEN endRound(g0, t) ELSE g0
    IN  IF ~g1.roundActive /\ g1.flashingTarget # NULL /\ now >= g1.flashEndsAt
        THEN startRound_NoGuard(g1, t, r) ELSE g1

\* maybeAdvanceGameClock() ending the round only after the deadline.
maybeAdvanceGameClock_Strict(g, now, t, r) ==
    LET g0 == [g EXCEPT !.clock = now, !.tickNow = now]
        g1 == IF ~g0.gameOver /\ g0.roundActive /\ now > g0.roundEndsAt
              THEN endRound(g0, t) ELSE g0
    IN  IF ~g1.gameOver /\ ~g1.roundActive /\ g1.flashingTarget # NULL
           /\ now >= g1.flashEndsAt
        THEN startRound(g1, t, r) ELSE g1

\* maybeAdvanceGameClock() that starts the next round without waiting for
\* the flash to end.
maybeAdvanceGameClock_NoFlashWait(g, now, t, r) ==
    LET g0 == [g EXCEPT !.clock = now, !.tickNow = now]
        g1 == IF ~g0.gameOver /\ g0.roundActive /\ now >= g0.roundEndsAt
              THEN endRound(g0, t) ELSE g0
    IN  IF ~g1.gameOver /\ ~g1.roundActive /\ g1.flashingTarget # NULL
        THEN startRound(g1, t, r) ELSE g1

\* maybeAdvanceGameClock() testing the deadlines for equality: a deadline
\* that falls between two ticks is never seen.
maybeAdvanceGameClock_ExactDeadline(g, now, t, r) ==
    LET g0 == [g EXCEPT !.clock = now, !.tickNow = now]
        g1 == IF ~g0.gameOver /\ g0.roundActive /\ now = g0.roundEndsAt
              THEN endRound(g0, t) ELSE g0
    IN  IF ~g1.gameOver /\ ~g1.roundActive /\ g1.flashingTarget # NULL
           /\ now = g1.flashEndsAt
        THEN startRound(g1, t, r) ELSE g1

\* maybeAdvanceGameClock(); now is its own read of the clock, t the read of
\* the transition function it calls.
maybeAdvanceGameClock(g, now, t, r) ==
    LET g0 == [g EXCEPT !.clock = now, !.tickNow = now]
        g1 == IF ~g0.gameOver /\ g0.roundActive /\ now >= g0.roundEndsAt
              THEN endRound(g0, t) ELSE g0
    IN  IF ~g1.gameOver /\ ~g1.roundActive /\ g1.flashingTarget # NULL
           /\ now >= g1.flashEndsAt
        THEN startRound(g1, t, r) ELSE g1

\* ------------------------------------------------------------ button hit test
\* Variant: the ratio taken over btn.w instead of btn.w * btn.h.
OverThreshold_Width(motionCount) ==
    motionCount * THRESHOLD_DEN > THRESHOLD_NUM * BUTTON_SIZE

\* ratio > THRESHOLD, with ratio = motionCount / (btn.w * btn.h).
OverThreshold(motionCount) ==
    motionCount * THRESHOLD_DEN > THRESHOLD_NUM * (BUTTON_SIZE * BUTTON_SIZE)

\* The loop keeping the first active button of the frame instead of the last.
RECURSIVE ForEachButton_First(_, _, _, _)
ForEachButton_First(g, counts, idx, frameLast) ==
    IF idx = NumButtons THEN frameLast
    ELSE ForEachButton_First(g, counts, idx + 1,
                       IF g.roundActive /\ OverThreshold(counts[idx]) /\ frameLast = NULL
                       THEN idx ELSE frameLast)

\* The loop without the roundActive test.
RECURSIVE ForEachButton_AnyPhase(_, _, _, _)
ForEachButton_AnyPhase(g, counts, idx, frameLast) ==
    IF idx = NumButtons THEN frameLast
    ELSE ForEachButton_AnyPhase(g, counts, idx + 1,
                       IF OverThreshold(counts[idx]) THEN idx ELSE frameLast)

\* The buttons.forEach loop of checkVirtualButtons from index idx on.
RECURSIVE ForEachButton(_, _, _, _)
ForEachButton(g, counts, idx, frameLast) ==
    IF idx = NumButtons THEN frameLast
    ELSE ForEachButton(g, counts, idx + 1,
                       IF g.roundActive /\ OverThreshold(counts[idx])
                       THEN idx ELSE frameLast)

\* buttons[idx].action
ButtonAction(idx) == <<"capture", "grayscale", "save">>[idx + 1]

\* The actions of the regions over the threshold, in declaration order, as
\* the snapshots without game mode trigger them.
RECURSIVE ActionsOf(_, _)
ActionsOf(counts, idx) ==
    IF idx = NumButtons THEN <<>>
    ELSE (IF OverThreshold(counts[idx]) THEN <<ButtonAction(idx)>> ELSE <<>>)
         \o ActionsOf(counts, idx + 1)

\* checkVirtualButtons() that also triggers the action of every region over
\* the threshold, as with GAME_MODE false.
checkVirtualButtons_Trigger(g, counts) ==
    LET frameLast == ForEachButton(g, counts, 0, NULL)
    IN  [g EXCEPT !.lastActivatedIndex = IF frameLast # NULL THEN frameLast ELSE @,
                  !.tested = TRUE,
                  !.exceeded = {i \in Buttons : OverThreshold(counts[i])},
                  !.triggered = @ \o ActionsOf(counts, 0),
                  !.lastCaptureCanvas = IF OverThreshold(counts[0]) THEN 1 ELSE @,
                  !.targetSeen = @ \/ (g.roundActive /\ OverThreshold(counts[g.targetIndex]))]

checkVirtualButtons(g, counts) ==
    LET frameLast == ForEachButton(g, counts, 0, NULL)
    IN  [g EXCEPT !.lastActivatedIndex = IF frameLast # NULL THEN frameLast ELSE @,
                  !.tested = TRUE,
                  !.exceeded = {i \in Buttons : OverThreshold(counts[i])},
                  !.targetSeen = @ \/ (g.roundActive /\ OverThreshold(counts[g.targetIndex]))]

\* drawVirtualButtons(); now is its read of performance.now().  Of what it
\* draws, the button filled with the flash tint is kept.
drawVirtualButtons(g, now) ==
    [g EXCEPT !.clock = now,
              !.tinted = IF ~g.roundActive /\ g.flashingTarget # NULL
                            /\ now < g.flashEndsAt
                         THEN g.flashingTarget ELSE NULL]

\* ------------------------------------------------------------------ main loop
\* processFrame() as before lives existed: hit test and clock run in every
\* tick.
processFrame_NoGuard(g, hasPrev, counts, tDraw, now, t, r) ==
    LET g1 == IF hasPrev THEN checkVirtualButtons(g, counts) ELSE g
        g2 == drawVirtualButtons(g1, tDraw)
    IN  maybeAdvanceGameClock_NoGuard(g2, now, t, r)

\* processFrame() running the hit test without a previous frame.
processFrame_NoPrevTest(g, hasPrev, counts, tDraw, now, t, r) ==
    LET g1 == IF ~g.gameOver THEN checkVirtualButtons(g, counts) ELSE g
        g2 == drawVirtualButtons(g1, tDraw)
    IN  IF ~g2.gameOver THEN maybeAdvanceGameClock(g2, now, t, r) ELSE g2

\* processFrame() advancing the game clock before the hit test.
processFrame_ClockFirst(g, hasPrev, counts, tDraw, now, t, r) ==
    LET g1 == drawVirtualButtons(g, tDraw)
        g2 == IF ~g1.gameOver THEN maybeAdvanceGameClock(g1, now, t, r) ELSE g1
    IN  IF hasPrev /\ ~g2.gameOver THEN checkVirtualButtons(g2, counts) ELSE g2

\* processFrame() after the zero-width early return.
processFrame(g, hasPrev, counts, tDraw, now, t, r) ==
    LET g1 == IF hasPrev /\ ~g.gameOver THEN checkVirtualButtons(g, counts) ELSE g
        g2 == drawVirtualButtons(g1, tDraw)
    IN  IF ~g2.gameOver THEN maybeAdvanceGameClock(g2, now, t, r) ELSE g2

Init ==
    /\ pc = "init"
    /\ pending = 0
    /\ lastCaptureCanvas = NULL
    /\ video = NULL
    /\ previousData = NULL
    /\ diffArgs = NULL
    /\ motionCounts = NULL
    /\ triggered = <<>>
    /\ clock = 0
    /\ videoWidth = 0
    /\ previousFrame = NULL
    /\ hp = MAX_HP
    /\ gameOver = FALSE
    /\ roundActive = FALSE
    /\ roundEndsAt = 0
    /\ targetIndex = 0
    /\ hitRecorded = FALSE
    /\ flashingTarget = NULL
    /\ flashEndsAt = 0
    /\ flashColor = "null"
    /\ lastActivatedIndex = NULL
    /\ calls = <<>>
    /\ tickNow = NULL
    /\ tested = FALSE
    /\ exceeded = {}
    /\ tinted = NULL
    /\ targetSeen = FALSE
    /\ misses = 0
    /\ hits = 0
    /\ lastTriggerAt = [a \in Actions |-> NULL]
    /\ readAt = [idx \in Buttons |-> NULL]

\* The state an invocation leaves behind.  A round that the invocation ended
\* is counted as a hit or a miss by the region that was activated last.
SetGame(g) ==
    /\ clock' = g.clock
    /\ hp' = g.hp
    /\ gameOver' = g.gameOver
    /\ roundActive' = g.roundActive
    /\ roundEndsAt' = g.roundEndsAt
    /\ targetIndex' = g.targetIndex
    /\ hitRecorded' = g.hitRecorded
    /\ flashingTarget' = g.flashingTarget
    /\ flashEndsAt' = g.flashEndsAt
    /\ flashColor' = g.flashColor
    /\ lastActivatedIndex' = g.lastActivatedIndex
    /\ calls' = g.calls
    /\ tickNow' = g.tickNow
    /\ tested' = g.tested
    /\ exceeded' = g.exceeded
    /\ tinted' = g.tinted
    /\ triggered' = g.triggered
    /\ lastCaptureCanvas' = g.lastCaptureCanvas
    /\ targetSeen' = g.targetSeen
    /\ LET ended == g.calls # <<>> /\ g.calls[1] = "endRound"
           onTarget == lastActivatedIndex' = targetIndex'
       IN  /\ misses' = IF ended /\ ~onTarget THEN misses + 1 ELSE misses
           /\ hits' = IF ended /\ onTarget THEN hits + 1 ELSE hits

\* startCamera(): the stream was acquired and playback started.
StartCameraOk ==
    /\ pc = "init"
    /\ \E d \in CameraDelays, r \in Buttons :
          /\ clock + d <= MaxTime
          /\ SetGame(startRound(GameState, clock + d, r))
    /\ pc' = "running"
    /\ pending' = pending + 1
    /\ UNCHANGED <<triggerVars, videoWidth, previousFrame, frameVars>>

\* startCamera() scheduling the first tick outside of the try block.
StartCameraFail_Scheduled ==
    /\ pc = "init"
    /\ pc' = "failed"
    /\ pending' = pending + 1
    /\ UNCHANGED <<triggerVars, clock, videoWidth, previousFrame, lastCaptureCanvas,
                   frameVars, gameVars, obsVars>>

\* startCamera(): getUserMedia or play rejected; the error is logged.
StartCameraFail ==
    /\ pc = "init"
    /\ pc' = "failed"
    /\ UNCHANGED <<triggerVars, pending, clock, videoWidth, previousFrame, lastCaptureCanvas,
                   frameVars, gameVars, obsVars>>

\* processFrame() returning on a zero-width video without rescheduling.
ProcessFrameNoVideo_NoReschedule ==
    /\ pending > 0
    /\ videoWidth = 0
    /\ pending' = pending - 1
    /\ calls' = <<>>
    /\ UNCHANGED <<triggerVars, pc, clock, videoWidth, previousFrame, lastCaptureCanvas,
                   frameVars, gameVars,
                   tickNow, tested, exceeded, tinted, triggered, targetSeen,
                   misses, hits>>

\* processFrame() while video.videoWidth is 0: reschedule and return.
\* The video reports width 0 only until its first frame is available.
ProcessFrameNoVideo ==
    /\ pending > 0
    /\ videoWidth = 0
    /\ pending' = (pending - 1) + 1
    /\ calls' = <<>>
    /\ UNCHANGED <<triggerVars, pc, clock, videoWidth, previousFrame, lastCaptureCanvas,
                   frameVars, gameVars,
                   tickNow, tested, exceeded, tinted, triggered, targetSeen,
                   misses, hits>>

\* processFrame() with a video frame of width w.  The inputs that the tick
\* does not consume (motion counts without a hit test, the clock read and
\* the random target of a transition function that is not called) are not
\* enumerated.
ProcessFrame ==
    /\ pending > 0
    /\ pending' = (pending - 1) + 1
    /\ \E w \in VideoWidths \ {0}, d \in TickDeltas, c1 \in CallDeltas :
          LET hasPrev == previousFrame # NULL
              tDraw == clock + d           \* read of drawVirtualButtons
              now == tDraw + c1            \* read of maybeAdvanceGameClock
              g0 == GameState
          IN  \E counts \in (IF hasPrev /\ g0.roundActive THEN RoundCounts
                             ELSE IF hasPrev /\ ~g0.gameOver THEN OffRoundCounts
                             ELSE {[i \in Buttons |-> 0]}) :
              \E probe \in {processFrame(g0, hasPrev, counts, tDraw, now, now, 0).calls} :
              \E c2 \in (IF probe # <<>> THEN CallDeltas ELSE {0}),
                 r \in (IF probe # <<>> /\ probe[Len(probe)] = "startRound"
                        THEN Buttons ELSE {0}) :
              \* t is the read of endRound / startRound
              \E t \in {now + c2} :
                  /\ t <= MaxTime
                  /\ videoWidth' = w
                  /\ previousFrame' = w
                  /\ SetGame(processFrame(g0, hasPrev, counts, tDraw, now, t, r))
    /\ UNCHANGED <<triggerVars, pc, frameVars>>

Next ==
    \/ StartCameraOk
    \/ StartCameraFail
    \/ ProcessFrameNoVideo
    \/ ProcessFrame

Spec == Init /\ [][Next]_vars

TypeOK ==
    /\ pc \in {"init", "running", "failed"}
    /\ clock \in 0 .. MaxTime
    /\ hp \in Int
    /\ gameOver \in BOOLEAN
    /\ roundActive \in BOOLEAN
    /\ targetIndex \in Buttons
    /\ flashingTarget \in Buttons \cup {NULL}
    /\ lastActivatedIndex \in Buttons \cup {NULL}
    /\ flashColor \in {"success", "fail", "null"}

\* -------------------------------------------------------------- frame level
\* The same tick with the frames themselves: detectMotion on the two
\* ImageData and the pixel loops of checkVirtualButtons on its result.

BUTTON_PADDING == 16
ROW_GAP == 12
MOTION_DELTA == 50
MASK_LEVEL == 128

\* Pixels <<R, G, B, A>>.
Black == <<0, 0, 0, 255>>
Grey50 == <<17, 17, 16, 255>>       \* channel deltas to Black sum to 50
Grey51 == <<17, 17, 17, 255>>       \* channel deltas to Black sum to 51
Clear == <<0, 0, 0, 0>>             \* Black with another alpha
White == <<255, 255, 255, 255>>

\* An ImageData: width, height, and the data as a background pixel bg with
\* the pixel fg inside the rectangle rect (columns x0..x1, rows y0..y1,
\* empty when x1 < x0) and at the position dot.
Img(w, h, bg, fg, rect, dot) ==
    [width |-> w, height |-> h, bg |-> bg, fg |-> fg, rect |-> rect, dot |-> dot]

NoRect == [x0 |-> 0, x1 |-> -1, y0 |-> 0, y1 |-> -1]
NoDot == <<-1, -1>>

InRect(col, row, rect) ==
    rect.x0 <= col /\ col <= rect.x1 /\ rect.y0 <= row /\ row <= rect.y1

\* img.data.length
DataLength(img) == img.width * img.height * 4

\* img.data[k]; NULL is the undefined of a read outside of the array.
DataAt(img, k) ==
    IF k < 0 \/ k >= DataLength(img) THEN NULL
    ELSE LET p == k \div 4
             col == p % img.width
             row == p \div img.width
         IN  IF InRect(col, row, img.rect) \/ <<col, row>> = img.dot
             THEN img.fg[(k % 4) + 1] ELSE img.bg[(k % 4) + 1]

\* Variant: the difference without Math.abs.
AbsDiff_Signed(a, b) ==
    IF a = NULL \/ b = NULL THEN NULL ELSE a - b

\* Math.abs(a - b); NULL is NaN, which an undefined operand gives.
AbsDiff(a, b) ==
    IF a = NULL \/ b = NULL THEN NULL ELSE IF a >= b THEN a - b ELSE b - a

\* delta of detectMotion for the pixel starting at index i.
Delta(prev, curr, i) ==
    LET dr == AbsDiff(DataAt(curr, i), DataAt(prev, i))
        dg == AbsDiff(DataAt(curr, i + 1), DataAt(prev, i + 1))
        db == AbsDiff(DataAt(curr, i + 2), DataAt(prev, i + 2))
    IN  IF dr = NULL \/ dg = NULL \/ db = NULL THEN NULL ELSE dr + dg + db

\* Variant: delta >= 50 instead of delta > 50.
detectMotion_AtLeast(prev, curr, k) ==
    IF k < 0 \/ k >= DataLength(curr) THEN NULL
    ELSE IF k % 4 = 3 THEN 255
    ELSE LET delta == Delta(prev, curr, k - (k % 4))
         IN  IF delta # NULL /\ delta >= MOTION_DELTA THEN 255 ELSE 0

\* detectMotion(prev, curr)[k]: the array has curr.data.length entries, the
\* three colour entries of a pixel hold 255 or 0 and its alpha entry 255.
\* A NaN delta is not greater than 50.
detectMotion(prev, curr, k) ==
    IF k < 0 \/ k >= DataLength(curr) THEN NULL
    ELSE IF k % 4 = 3 THEN 255
    ELSE LET delta == Delta(prev, curr, k - (k % 4))
         IN  IF delta # NULL /\ delta > MOTION_DELTA THEN 255 ELSE 0

\* Twice resolve(btn.x) of button idx on a canvas of width W (the top
\* button's x is a half for an odd W), and resolve(btn.y).
ButtonX2(idx, W) ==
    CASE idx = 0 -> W - BUTTON_SIZE
      [] idx = 1 -> 2 * BUTTON_PADDING
      [] idx = 2 -> 2 * (W - BUTTON_PADDING - BUTTON_SIZE)

ButtonY(idx) ==
    IF idx = 0 THEN BUTTON_PADDING ELSE BUTTON_PADDING + BUTTON_SIZE + ROW_GAP

\* Variant: an index di that is not the first entry of a pixel reads
\* nothing.
motionCount_WholeIndex(prev, curr, W, idx) ==
    Cardinality({jn \in (ButtonY(idx) .. (ButtonY(idx) + BUTTON_SIZE - 1))
                        \X (0 .. (BUTTON_SIZE - 1)) :
        LET di == 4 * jn[1] * W + 2 * ButtonX2(idx, W) + 4 * jn[2]
            v == detectMotion(prev, curr, di)
        IN  di % 4 = 0 /\ v # NULL /\ v > MASK_LEVEL})

\* motionCount of button idx: the loops over j = y .. y + h - 1 and
\* i = x + n, n = 0 .. w - 1, reading diff[di] with di = (j * W + i) * 4.
\* An undefined diff[di] is not greater than 128.
motionCount(prev, curr, W, idx) ==
    Cardinality({jn \in (ButtonY(idx) .. (ButtonY(idx) + BUTTON_SIZE - 1))
                        \X (0 .. (BUTTON_SIZE - 1)) :
        LET di == 4 * jn[1] * W + 2 * ButtonX2(idx, W) + 4 * jn[2]
            v == detectMotion(prev, curr, di)
        IN  v # NULL /\ v > MASK_LEVEL})

\* Frame sizes the camera delivers.
FrameSizes == {<<640, 480>>, <<641, 480>>, <<160, 120>>, <<96, 200>>}

\* A block of 23 x 46 = 1058 pixels inside the left button, one inside the
\* top button of a 640 or 641 wide frame, and a pixel next to each.
LeftBlock == [x0 |-> 20, x1 |-> 42, y0 |-> 120, y1 |-> 165]
TopBlock == [x0 |-> 290, x1 |-> 312, y0 |-> 20, y1 |-> 65]
LeftDot == <<50, 120>>
TopDot == <<320, 20>>

\* The smallest frames that contain the three regions, of even and of odd
\* width.
EdgeSizes == {<<100, 196>>, <<101, 196>>}

\* Pairs of single pixels: every channel goes up, down or stays, the
\* channel deltas sum to 0 .. 51, and the alpha stays or changes.
PixelPairs ==
    {<<Img(1, 1, <<17, 0, 17, 255>>, <<17, 0, 17, 255>>, NoRect, NoDot),
       Img(1, 1, <<r, g, b, a>>, <<r, g, b, a>>, NoRect, NoDot)>> :
        r \in {0, 17, 34}, g \in {0, 16, 17}, b \in {0, 17, 34}, a \in {0, 255}}

\* The pairs <<previous frame, next frame>> followed: a black frame and the
\* same frame with a changed block (and pixel), two plain frames of any
\* two sizes, two plain frames of the smallest sizes that contain the
\* regions, and the pairs of single pixels.
FramePairs ==
    PixelPairs \cup
    {<<Img(sz[1], sz[2], pa, pa, NoRect, NoDot),
       Img(sz[1], sz[2], pb, pb, NoRect, NoDot)>> :
        sz \in EdgeSizes, pa \in {Black, White}, pb \in {Black, White}}
    \cup
    {<<Img(sz[1], sz[2], Black, Black, NoRect, NoDot),
       Img(sz[1], sz[2], Black, fg, bd[1], bd[2])>> :
        sz \in {<<640, 480>>, <<641, 480>>},
        fg \in {Grey50, Grey51, Clear, White},
        bd \in {<<LeftBlock, NoDot>>, <<LeftBlock, LeftDot>>,
                <<TopBlock, NoDot>>, <<TopBlock, TopDot>>}}
    \cup
    {<<Img(s1[1], s1[2], pa, pa, NoRect, NoDot),
       Img(s2[1], s2[2], pb, pb, NoRect, NoDot)>> :
        s1 \in FrameSizes, s2 \in FrameSizes,
        pa \in {Black, White}, pb \in {Black, White}}

\* The state after startCamera and a first tick that stored the frame prev,
\* with the video showing the frame next.
InitFrame ==
    /\ \E pair \in FramePairs :
          /\ previousData = pair[1]
          /\ video = pair[2]
          /\ videoWidth = pair[1].width
          /\ previousFrame = pair[1].width
    /\ \E r \in Buttons : targetIndex = r
    /\ \E d \in CameraDelays :
          /\ clock = d
          /\ tickNow = d
          /\ roundEndsAt = d + ROUND_MS
    /\ pc = "running"
    /\ pending = 1
    /\ lastCaptureCanvas = NULL
    /\ diffArgs = <<>>
    /\ motionCounts = [idx \in Buttons |-> 0]
    /\ hp = MAX_HP
    /\ gameOver = FALSE
    /\ roundActive = TRUE
    /\ hitRecorded = FALSE
    /\ flashingTarget = NULL
    /\ flashEndsAt = 0
    /\ flashColor = "null"
    /\ lastActivatedIndex = NULL
    /\ calls = <<>>
    /\ tested = FALSE
    /\ exceeded = {}
    /\ tinted = NULL
    /\ triggered = <<>>
    /\ targetSeen = FALSE
    /\ misses = 0
    /\ hits = 0
    /\ lastTriggerAt = [a \in Actions |-> NULL]
    /\ readAt = [idx \in Buttons |-> NULL]

\* processFrame() on the frame the video shows, for the first pair of frames.
ProcessFrameData ==
    /\ pending > 0
    /\ diffArgs = <<>>
    /\ video.width # 0
    /\ pending' = (pending - 1) + 1
    /\ LET W == video.width
           hasPrev == previousFrame # NULL
       IN  \E counts \in {[idx \in Buttons |->
                             IF hasPrev
                             THEN motionCount(previousData, video, W, idx)
                             ELSE 0]} :
              /\ SetGame(processFrame(GameState, hasPrev, counts,
                                      clock, clock, clock, 0))
              /\ motionCounts' = counts
              /\ diffArgs' = <<previousData, video>>
              /\ previousData' = video
              /\ previousFrame' = W
              /\ videoWidth' = W
    /\ UNCHANGED <<triggerVars, pc, video>>

NextFrame == ProcessFrameData

SpecFrame == InitFrame /\ [][NextFrame]_vars

\* ------------------------------------------------------------ frame sequence
\* The same loop with the identity of the frames: the camera shows the
\* frames 0, 1, 2, 0, ... and a tick reads the frame that is showing.
NumFrames == 3

\* Time between two reads of performance.now() inside one tick of the
\* sequence: the tick is faster than the resolution of the clock.
SeqCallDeltas == {0}

\* Variant: the frame is stored only while a round is active.
StoreFrame_RoundOnly(g, prev, curr) ==
    IF g.roundActive THEN curr ELSE prev

\* previousFrame = currentFrame at the end of processFrame; g is the state
\* the tick started from.
StoreFrame(g, prev, curr) == curr

InitSeq ==
    /\ pc = "init"
    /\ pending = 0
    /\ lastCaptureCanvas = NULL
    /\ video = 0
    /\ previousData = NULL
    /\ diffArgs = <<>>
    /\ motionCounts = [idx \in Buttons |-> 0]
    /\ triggered = <<>>
    /\ clock = 0
    /\ videoWidth = 0
    /\ previousFrame = NULL
    /\ hp = MAX_HP
    /\ gameOver = FALSE
    /\ roundActive = FALSE
    /\ roundEndsAt = 0
    /\ targetIndex = 0
    /\ hitRecorded = FALSE
    /\ flashingTarget = NULL
    /\ flashEndsAt = 0
    /\ flashColor = "null"
    /\ lastActivatedIndex = NULL
    /\ calls = <<>>
    /\ tickNow = NULL
    /\ tested = FALSE
    /\ exceeded = {}
    /\ tinted = NULL
    /\ targetSeen = FALSE
    /\ misses = 0
    /\ hits = 0
    /\ lastTriggerAt = [a \in Actions |-> NULL]
    /\ readAt = [idx \in Buttons |-> NULL]

\* The camera delivers its next frame.
VideoNext ==
    /\ pc = "running"
    /\ video' = (video + 1) % NumFrames
    /\ UNCHANGED <<triggerVars, pc, pending, clock, videoWidth, previousFrame, lastCaptureCanvas,
                   previousData, diffArgs, motionCounts, gameVars, obsVars>>

\* processFrame() on the frame that is showing; detectMotion is called with
\* the stored frame and this one whenever a frame is stored.  The regions
\* of a frame pair are all below or all above the threshold.
ProcessFrameSeq ==
    /\ pending > 0
    /\ pending' = (pending - 1) + 1
    /\ \E w \in VideoWidths \ {0}, d \in TickDeltas, c1 \in SeqCallDeltas :
          LET hasPrev == previousFrame # NULL
              tDraw == clock + d
              now == tDraw + c1
              g0 == GameState
          IN  \E counts \in (IF hasPrev /\ ~g0.gameOver THEN OffRoundCounts
                             ELSE {[i \in Buttons |-> 0]}) :
              \E probe \in {processFrame(g0, hasPrev, counts, tDraw, now, now, 0).calls} :
              \E c2 \in (IF probe # <<>> THEN SeqCallDeltas ELSE {0}),
                 r \in (IF probe # <<>> /\ probe[Len(probe)] = "startRound"
                        THEN Buttons ELSE {0}) :
              \E t \in {now + c2} :
                  /\ t <= MaxTime
                  /\ videoWidth' = w
                  /\ previousFrame' = w
                  /\ SetGame(processFrame(g0, hasPrev, counts, tDraw, now, t, r))
                  /\ diffArgs' = IF hasPrev THEN <<previousData, video>> ELSE diffArgs
                  /\ previousData' = StoreFrame(g0, previousData, video)
    /\ UNCHANGED <<triggerVars, pc, video, motionCounts>>

NextSeq ==
    \/ StartCameraOk
    \/ StartCameraFail
    \/ ProcessFrameNoVideo
    \/ ProcessFrameSeq
    \/ VideoNext

SpecSeq == InitSeq /\ [][NextSeq]_vars

\* A step of processFrame at a later timestamp than the last read of the
\* clock: the steps of ProcessFrameSeq with a positive tick delta.
LaterTick ==
    /\ pending > 0
    /\ clock' \in {clock + d : d \in TickDeltas \ {0}}
    /\ clock' <= MaxTime
    /\ video' = video

\* The sequence under the scheduling of requestAnimationFrame with a running
\* clock: a tick at a later timestamp keeps occurring as long as the bound
\* of the exploration allows one.
SpecSeqFair == SpecSeq /\ WF_clock(LaterTick)

\* ------------------------------------------------- snapshots without game mode
\* The loop of the snapshots before the game: every region over the
\* threshold triggers its action, at most once per cooldown.

\* Last clock value explored, the time between two ticks, and the time
\* between the clock reads of two buttons in one hit test.
MaxPreTime == 1400
PreTickDeltas == {300, 301}
PreCallDeltas == {0, 1}

\* Variant: the cooldown is over after exactly COOLDOWN_MS.
CooldownOver_AtLeast(last, now) ==
    last = NULL \/ last = 0 \/ now - last >= COOLDOWN_MS

\* !lastTriggerAt[action] || now - lastTriggerAt[action] > COOLDOWN_MS
CooldownOver(last, now) ==
    last = NULL \/ last = 0 \/ now - last > COOLDOWN_MS

\* triggerAction(action): a capture becomes the last capture; grayscale and
\* save work on the last capture and do nothing without one.
triggerAction(st, action) ==
    [st EXCEPT !.triggered = Append(@, action),
               !.lastCaptureCanvas = IF action = "capture" THEN 1 ELSE @]

\* The buttons.forEach loop of checkVirtualButtons in the snapshots without
\* game mode, from index idx on; reads[idx] is the clock read for button idx.
RECURSIVE checkVirtualButtonsPre(_, _, _, _)
checkVirtualButtonsPre(st, counts, reads, idx) ==
    IF idx = NumButtons THEN st
    ELSE LET action == ButtonAction(idx)
             now == reads[idx]
             st1 == [st EXCEPT !.readAt[idx] = now, !.clock = now,
                               !.exceeded = @ \cup {idx}]
             st2 == IF ~OverThreshold(counts[idx]) THEN st
                    ELSE IF CooldownOver(st.lastTriggerAt[action], now)
                    THEN triggerAction([st1 EXCEPT !.lastTriggerAt[action] = now],
                                       action)
                    ELSE st1
         IN  checkVirtualButtonsPre(st2, counts, reads, idx + 1)

InitPre ==
    /\ pc = "init"
    /\ pending = 0
    /\ lastCaptureCanvas = NULL
    /\ video = NULL
    /\ previousData = NULL
    /\ diffArgs = NULL
    /\ motionCounts = NULL
    /\ triggered = <<>>
    /\ clock = 0
    /\ videoWidth = 0
    /\ previousFrame = NULL
    /\ hp = MAX_HP
    /\ gameOver = FALSE
    /\ roundActive = FALSE
    /\ roundEndsAt = 0
    /\ targetIndex = 0
    /\ hitRecorded = FALSE
    /\ flashingTarget = NULL
    /\ flashEndsAt = 0
    /\ flashColor = "null"
    /\ lastActivatedIndex = NULL
    /\ calls = <<>>
    /\ tickNow = NULL
    /\ tested = FALSE
    /\ exceeded = {}
    /\ tinted = NULL
    /\ targetSeen = FALSE
    /\ misses = 0
    /\ hits = 0
    /\ lastTriggerAt = [a \in Actions |-> NULL]
    /\ readAt = [idx \in Buttons |-> NULL]

\* startCamera() of the snapshots without game mode: no round is started.
StartCameraPre ==
    /\ pc = "init"
    /\ pc' = "running"
    /\ pending' = pending + 1
    /\ \E d \in CameraDelays : clock' = clock + d
    /\ UNCHANGED <<triggerVars, videoWidth, previousFrame, lastCaptureCanvas,
                   frameVars, gameVars, obsVars>>

\* processFrame() of the snapshots without game mode, with a video frame.
ProcessFramePre ==
    /\ pending > 0
    /\ pending' = (pending - 1) + 1
    /\ \E w \in VideoWidths \ {0}, d \in PreTickDeltas :
       \E counts \in (IF previousFrame # NULL THEN RoundCounts
                      ELSE {[i \in Buttons |-> 0]}) :
       \E e \in [Buttons -> PreCallDeltas] :
          LET reads == [idx \in Buttons |->
                          clock + d + (IF idx >= 0 THEN e[0] ELSE 0)
                                    + (IF idx >= 1 THEN e[1] ELSE 0)
                                    + (IF idx >= 2 THEN e[2] ELSE 0)]
              st0 == [lastTriggerAt |-> lastTriggerAt,
                      readAt |-> [idx \in Buttons |-> NULL],
                      clock |-> clock + d,
                      exceeded |-> {},
                      triggered |-> <<>>,
                      lastCaptureCanvas |-> lastCaptureCanvas]
              st == IF previousFrame # NULL
                    THEN checkVirtualButtonsPre(st0, counts, reads, 0)
                    ELSE st0
          IN  /\ \A idx \in Buttons :
                    ~OverThreshold(counts[idx]) => e[idx] = 0
              /\ st.clock <= MaxPreTime
              /\ videoWidth' = w
              /\ previousFrame' = w
              /\ clock' = st.clock
              /\ lastTriggerAt' = st.lastTriggerAt
              /\ readAt' = st.readAt
              /\ exceeded' = st.exceeded
              /\ triggered' = st.triggered
              /\ lastCaptureCanvas' = st.lastCaptureCanvas
              /\ tested' = (previousFrame # NULL)
    /\ UNCHANGED <<pc, frameVars, gameVars, calls, tickNow, tinted, targetSeen,
                   misses, hits>>

NextPre ==
    \/ StartCameraPre
    \/ StartCameraFail
    \/ ProcessFrameNoVideo
    \/ ProcessFramePre

SpecPre == InitPre /\ [][NextPre]_vars

\* ------------------------------------------------------------------- phases
Idle == ~roundActive /\ flashingTarget = NULL /\ ~gameOver
Flash == ~roundActive /\ flashingTarget # NULL /\ ~gameOver

\* The step ended a round / started a round.
RoundEnded == roundActive /\ ~roundActive'
RoundStarted == ~roundActive /\ roundActive'

Max(S) == CHOOSE m \in S : \A x \in S : x <= m

\* ------------------------------------------------------------------- claims

\* C1: hp starts at MAX_HP = 3, lies in 0..3 in every reachable state and
\* never increases; in every step it either keeps its value or drops by
\* exactly 1, and it drops only in a step that ends a round as a miss
\* (hitRecorded false, the last activated region is not the target).
C1_LivesOnlyDecrease ==
    [][ /\ (pc = "init" => hp = MAX_HP)
        /\ hp \in 0 .. MAX_HP /\ hp' \in 0 .. MAX_HP
        /\ hp' <= hp
        /\ (hp' # hp => /\ hp' = hp - 1
                        /\ RoundEnded
                        /\ ~hitRecorded'
                        /\ misses' = misses + 1) ]_vars

\* A life was lost in one round and none in another round that was a hit.
C1_Witness == hp = MAX_HP - 1 /\ hits = 1 /\ misses = 1

\* C2: game over is terminal.  From a state with gameOver no step changes
\* gameOver, hp, roundActive, targetIndex, hitRecorded, lastActivatedIndex,
\* roundEndsAt, flashingTarget, flashColor or flashEndsAt, and a tick in
\* that state runs neither the hit test nor the game clock.
C2_GameOverTerminal ==
    [][ gameOver => /\ gameOver'
                    /\ UNCHANGED gameVars
                    /\ calls' = <<>>
                    /\ tickNow' = NULL
                    /\ exceeded' = {} ]_vars

\* A tick ran after the game was over, at a time at which the flash deadline
\* had passed.
C2_Witness ==
    gameOver /\ calls = <<>> /\ tickNow = NULL /\ clock >= flashEndsAt

\* C3: hp is MAX_HP minus the number of rounds that ended as a miss, hits
\* leave it alone, and gameOver holds exactly when hp is 0; after three
\* missed rounds hp is 0 and the game is over.
C3_LivesCountMisses ==
    /\ hp = MAX_HP - misses
    /\ gameOver <=> (hp = 0)
    /\ (misses = MAX_HP => hp = 0 /\ gameOver /\ ~roundActive)

\* Three rounds were missed, none was hit, and a further tick has run.
C3_Witness ==
    misses = MAX_HP /\ hits = 0 /\ hp = 0 /\ gameOver /\ calls = <<>>

\* C4 as stated: a round in which the target was over the threshold in some
\* tick ends as a hit with the success flash.
C4_HitIfTargetSeen ==
    (calls = <<"endRound">> /\ targetSeen) =>
        (hitRecorded /\ flashColor = "success" /\ Flash)

\* C4 amended: a round ends as a hit, with lives unchanged and the success
\* flash on the target, when the target is the region that was activated
\* last in the round: it was over the threshold in some tick, no region of
\* higher index was over the threshold in that tick, and no region was over
\* the threshold in a later tick of the round.
C4_HitIfTargetLast ==
    [][ (RoundEnded /\ targetSeen' /\ lastActivatedIndex' = targetIndex) =>
            /\ hitRecorded'
            /\ hp' = hp
            /\ Flash'
            /\ flashColor' = "success"
            /\ flashingTarget' = targetIndex ]_vars

\* A round ended as a hit although another region was over the threshold
\* in its last tick too.
C4_Witness ==
    /\ calls = <<"endRound">> /\ hitRecorded /\ flashColor = "success"
    /\ targetSeen /\ Cardinality(exceeded) >= 2

\* C5: when a round ends, hitRecorded is (lastActivatedIndex = targetIndex):
\* a round without any activation is a miss, and so is a round whose last
\* activated region is not the target, whatever was active before.
C5_HitIsLastActivated ==
    calls = <<"endRound">> =>
        /\ hitRecorded <=> (lastActivatedIndex = targetIndex)
        /\ (lastActivatedIndex = NULL => ~hitRecorded)
        /\ (lastActivatedIndex # targetIndex => ~hitRecorded)

\* A round ended as a miss although the target had been active in it.
C5_Witness ==
    /\ calls = <<"endRound">> /\ ~hitRecorded /\ targetSeen
    /\ lastActivatedIndex # NULL /\ lastActivatedIndex # targetIndex

\* C6 as stated: the miss that takes the last life sets no flash field, and
\* no button is drawn with the flash tint once the game is over.
C6_NoFlashAtGameOver ==
    gameOver => (flashingTarget = NULL /\ flashColor = "null" /\ tinted = NULL)

\* C7: startRound sets the deadline to its clock read plus ROUND_MS; a tick
\* of an active round whose timestamp is below roundEndsAt leaves the round
\* active, and a tick whose timestamp is at or past roundEndsAt ends it, into
\* Flash, or into game over when the miss took the last life.
C7_RoundLifecycle ==
    [][ /\ (RoundStarted => roundEndsAt' = clock' + ROUND_MS)
        /\ (roundActive /\ tickNow' # NULL =>
                (roundActive' <=> tickNow' < roundEndsAt))
        /\ (roundActive => tickNow <= roundEndsAt - 1 \/ tickNow = NULL)
        /\ (RoundEnded => /\ tickNow' >= roundEndsAt
                          /\ flashingTarget' = targetIndex
                          /\ (gameOver' <=> hp' = 0)
                          /\ (Flash' \/ gameOver')) ]_vars

\* A round was ended by a tick exactly at its deadline.
C7_Witness ==
    calls = <<"endRound">> /\ tickNow = roundEndsAt /\ ~roundActive

\* C8: in a tick of an active round the last activated region becomes the
\* highest index among the regions over the threshold, and keeps its value
\* when no region is over the threshold.
C8_LastInDeclarationOrderWins ==
    [][ roundActive =>
            lastActivatedIndex' = IF exceeded' = {} THEN lastActivatedIndex
                                  ELSE Max(exceeded') ]_vars

\* Regions 0 and 1 were over the threshold in the same tick of an active
\* round and region 2 was not.
C8_Witness ==
    roundActive /\ exceeded = {0, 1} /\ lastActivatedIndex = 1

\* C9: one call of maybeAdvanceGameClock makes at most one phase transition:
\* it never calls endRound and startRound both, and after the endRound that
\* takes the last life nothing else is called.
C9_OneTransitionPerTick ==
    /\ Len(calls) <= 1
    /\ (calls # <<>> /\ calls[1] = "endRound" => ~roundActive)
    /\ (gameOver /\ calls # <<>> => calls = <<"endRound">>)

\* A tick ended a round long after both the round deadline and the flash
\* length had passed, and did not start the next round.
C9_Witness ==
    /\ calls = <<"endRound">> /\ ~roundActive /\ ~gameOver
    /\ tickNow >= roundEndsAt + FLASH_MS

\* C10: a tick during Flash whose timestamp is below flashEndsAt (the clock
\* read of endRound plus FLASH_MS) leaves the phase at Flash; a tick at or
\* past flashEndsAt starts a fresh round: roundActive, no hit recorded, no
\* last activated region, flash fields cleared, a target in 0..2 and a
\* deadline ROUND_MS after the clock read of startRound in that tick.
C10_FlashToNextRound ==
    [][ /\ (RoundEnded => flashEndsAt' = clock' + FLASH_MS)
        /\ (Flash /\ tickNow' # NULL /\ tickNow' < flashEndsAt =>
                /\ Flash'
                /\ UNCHANGED gameVars)
        /\ (Flash /\ tickNow' # NULL /\ tickNow' >= flashEndsAt =>
                /\ roundActive'
                /\ ~hitRecorded'
                /\ lastActivatedIndex' = NULL
                /\ flashingTarget' = NULL
                /\ flashColor' = "null"
                /\ targetIndex' \in Buttons
                /\ clock' >= tickNow'
                /\ roundEndsAt' = clock' + ROUND_MS
                /\ hp' = hp) ]_vars

\* A round was started by a tick exactly at the flash deadline, after a
\* round in which a region had been activated.
C10_Witness ==
    /\ calls = <<"startRound">> /\ roundActive /\ tickNow = flashEndsAt
    /\ hits + misses >= 1 /\ hits >= 1

\* The step is the first processFrame invocation that had a video frame.
FirstFrame == previousFrame = NULL /\ previousFrame' # NULL

\* C11 as stated: the tick without a previous frame only stores the frame;
\* the hit test and the game clock do not run and the round state is left
\* as it was, whatever the timestamp.
C11_FirstFrameOnlyStored ==
    [][ FirstFrame => /\ ~tested'
                      /\ calls' = <<>>
                      /\ UNCHANGED gameVars ]_vars

\* C11 amended: the tick without a previous frame stores the frame and runs
\* no hit test, so no region is tested and lastActivatedIndex is unchanged;
\* the game clock is advanced as in every tick, so the round state is left
\* as it was only when the timestamp is below roundEndsAt, and a timestamp at
\* or past roundEndsAt ends the first round (as a miss).
C11_FirstFrameNoHitTest ==
    [][ FirstFrame => /\ ~tested' /\ exceeded' = {}
                      /\ lastActivatedIndex' = lastActivatedIndex
                      /\ targetSeen' = targetSeen
                      /\ tickNow' # NULL
                      /\ (tickNow' < roundEndsAt => UNCHANGED gameVars)
                      /\ (tickNow' >= roundEndsAt =>
                             /\ calls' = <<"endRound">>
                             /\ ~hitRecorded'
                             /\ hp' = hp - 1) ]_vars

\* The first tick with a frame came after the deadline of the first round
\* and ended it.
C11_Witness ==
    /\ calls = <<"endRound">> /\ ~tested /\ ~gameOver
    /\ previousFrame # NULL /\ misses = 1 /\ hits = 0

\* C12: every round starts with lastActivatedIndex none, and the only other
\* write is by the hit test of a tick of an active round, with a region over
\* the threshold in that tick; so a round whose last activated region is the
\* target had the target over the threshold in one of its own ticks, and
\* motion during Flash writes nothing.
C12_LastActivatedOfThisRound ==
    [][ /\ (RoundStarted => lastActivatedIndex' = NULL)
        /\ (lastActivatedIndex' # lastActivatedIndex =>
                \/ RoundStarted
                \/ roundActive /\ tested' /\ lastActivatedIndex' \in exceeded')
        /\ (pc = "running" /\ lastActivatedIndex = targetIndex => targetSeen) ]_vars

\* All regions were over the threshold in a tick during Flash, after a round
\* without any activation.
C12_Witness ==
    Flash /\ tested /\ exceeded = Buttons /\ lastActivatedIndex = NULL /\ calls = <<>>

SameSize(a, b) == a.width = b.width /\ a.height = b.height

Abs(x) == IF x < 0 THEN -x ELSE x

\* The data indices at which the masks are compared: the first pixel, the
\* corners of the block, the single pixel and the last pixel of the frame.
ProbePixels(img) ==
    {i \in {0,
            4 * (img.rect.y0 * img.width + img.rect.x0),
            4 * (img.rect.y1 * img.width + img.rect.x1),
            4 * (img.dot[2] * img.width + img.dot[1]),
            DataLength(img) - 4} : 0 <= i /\ i < DataLength(img)}

\* The frame img with the alpha of every pixel replaced.
OtherAlpha(img) == [img EXCEPT !.bg[4] = 255 - @, !.fg[4] = 255 - @]

\* C13: for two frames of the same size, detectMotion marks a pixel as motion
\* exactly when |dR| + |dG| + |dB| > 50 (50 is not motion, 51 is), it writes
\* the mark to the three colour entries and 255 to the alpha entry, and the
\* alpha of the frames does not change the mask.
C13_MotionIffDeltaOver50 ==
    diffArgs # <<>> /\ SameSize(diffArgs[1], diffArgs[2]) =>
        \A i \in ProbePixels(diffArgs[2]) :
            LET prev == diffArgs[1]
                curr == diffArgs[2]
                sum == Abs(DataAt(curr, i) - DataAt(prev, i))
                       + Abs(DataAt(curr, i + 1) - DataAt(prev, i + 1))
                       + Abs(DataAt(curr, i + 2) - DataAt(prev, i + 2))
            IN  /\ detectMotion(prev, curr, i) = (IF sum > 50 THEN 255 ELSE 0)
                /\ detectMotion(prev, curr, i + 1) = detectMotion(prev, curr, i)
                /\ detectMotion(prev, curr, i + 2) = detectMotion(prev, curr, i)
                /\ detectMotion(prev, curr, i + 3) = 255
                /\ detectMotion(prev, OtherAlpha(curr), i) = detectMotion(prev, curr, i)
                /\ detectMotion(OtherAlpha(prev), curr, i) = detectMotion(prev, curr, i)

\* A tick compared a black frame with a frame whose block differs by exactly
\* 50, and found no motion in the block.
C13_Witness ==
    /\ diffArgs # <<>>
    /\ diffArgs[1].bg = Black
    /\ diffArgs[2].fg = Grey50
    /\ diffArgs[2].rect = LeftBlock
    /\ detectMotion(diffArgs[1], diffArgs[2], 4 * (LeftBlock.y0 * diffArgs[2].width + LeftBlock.x0)) = 0
    /\ motionCounts[1] = 0

\* The block of the frame img lies inside button idx.
BlockInButton(img, idx) ==
    /\ 2 * img.rect.x0 >= ButtonX2(idx, img.width)
    /\ 2 * (img.rect.x1 + 1) <= ButtonX2(idx, img.width) + 2 * BUTTON_SIZE
    /\ img.rect.y0 >= ButtonY(idx)
    /\ img.rect.y1 + 1 <= ButtonY(idx) + BUTTON_SIZE

\* The number of changed pixels of button idx in a frame that differs from a
\* plain frame by its block and its single pixel.
BlockCount(img, idx) ==
    IF img.fg \in {Grey51, White} /\ BlockInButton(img, idx)
    THEN (img.rect.x1 - img.rect.x0 + 1) * (img.rect.y1 - img.rect.y0 + 1)
         + (IF img.dot = NoDot THEN 0 ELSE 1)
    ELSE 0

\* C14: a region is over the threshold in a tick exactly when
\* 100 * count > 15 * area, count being the motion pixels of its rectangle:
\* 1058 of 7056 pixels (the most that is not above 15%) leave it inactive,
\* 1059 make it active.
C14_ActiveIffOver15Percent ==
    diffArgs # <<>> =>
        /\ \A idx \in Buttons :
              (idx \in exceeded) <=>
                  (100 * motionCounts[idx] > 15 * (BUTTON_SIZE * BUTTON_SIZE))
        /\ diffArgs[2].rect # NoRect =>
              \A idx \in Buttons : motionCounts[idx] = BlockCount(diffArgs[2], idx)

\* The left region had the least count above 15% of its area and was active.
C14_Witness ==
    /\ diffArgs # <<>>
    /\ 100 * motionCounts[1] - 15 * (BUTTON_SIZE * BUTTON_SIZE) \in 1 .. 100
    /\ exceeded = {1}
    /\ lastActivatedIndex = 1

\* Button idx lies inside the frame img.
RegionInsideFrame(idx, img) ==
    /\ ButtonX2(idx, img.width) >= 0
    /\ ButtonX2(idx, img.width) + 2 * BUTTON_SIZE <= 2 * img.width
    /\ ButtonY(idx) + BUTTON_SIZE <= img.height

\* The motion pixels of the mask that are inside button idx and inside the frame.
ClippedCount(prev, curr, idx) ==
    Cardinality({jn \in (ButtonY(idx) .. (ButtonY(idx) + BUTTON_SIZE - 1))
                        \X (0 .. (BUTTON_SIZE - 1)) :
        LET col == (ButtonX2(idx, curr.width) + 2 * jn[2]) \div 2
        IN  /\ jn[1] < curr.height
            /\ 0 <= col
            /\ col < curr.width
            /\ detectMotion(prev, curr, 4 * (jn[1] * curr.width + col)) = 255})

\* C15: for every frame size the three regions lie inside the frame, and the
\* motion count of a region is the number of mask pixels inside its rectangle
\* and inside the frame.
C15_RegionsInsideFrame ==
    diffArgs # <<>> =>
        \A idx \in Buttons :
            /\ RegionInsideFrame(idx, diffArgs[2])
            /\ motionCounts[idx] = ClippedCount(diffArgs[1], diffArgs[2], idx)

\* C16: a tick whose frame differs in width or height from the previous frame
\* computes no mask from the two and leaves lastActivatedIndex unchanged.
C16_MismatchSkipsDetection ==
    [][ ~SameSize(previousData, video) =>
            diffArgs' = diffArgs /\ lastActivatedIndex' = lastActivatedIndex ]_vars

\* C17: for two frames of the same size, detectMotion(A, B) and
\* detectMotion(B, A) hold the same value at every entry.
C17_MaskSymmetric ==
    diffArgs # <<>> /\ SameSize(diffArgs[1], diffArgs[2]) =>
        \A i \in ProbePixels(diffArgs[2]), c \in 0 .. 3 :
            detectMotion(diffArgs[1], diffArgs[2], i + c)
                = detectMotion(diffArgs[2], diffArgs[1], i + c)

\* A tick compared two pixels whose red and blue went down and whose green
\* went up, 51 in all, and marked motion.
C17_Witness ==
    /\ diffArgs # <<>>
    /\ diffArgs[1].bg = <<17, 0, 17, 255>>
    /\ diffArgs[2].bg = <<0, 17, 0, 255>>
    /\ detectMotion(diffArgs[1], diffArgs[2], 0) = 255
    /\ detectMotion(diffArgs[2], diffArgs[1], 0) = 255

\* C18: no tick triggers capture, grayscale or save, and lastCaptureCanvas
\* stays unset, however many regions are over the threshold.
C18_NoActionTriggered ==
    triggered = <<>> /\ lastCaptureCanvas = NULL

\* All three regions were over the threshold in a tick of an active round.
C18_Witness ==
    roundActive /\ tested /\ exceeded = Buttons /\ triggered = <<>>

\* C19: after a failed camera start no tick is pending, the state is the
\* initial Idle state, and no step changes it.
C19_CameraFailureStalls ==
    [][ pc = "failed" =>
            /\ pending = 0
            /\ Idle /\ hp = MAX_HP /\ previousFrame = NULL
            /\ tickNow = NULL /\ calls = <<>>
            /\ UNCHANGED vars ]_vars

\* The camera start has failed.
C19_Witness == pc = "failed" /\ pending = 0 /\ Idle

\* C20: Idle is left once, by the startRound of startCamera, and never
\* entered again; maybeAdvanceGameClock starts no round from Idle; once the
\* first round began exactly one of roundActive and a set flashingTarget
\* holds, rounds start from Idle or Flash only and end in Flash or game over.
C20_IdleLeftOnce ==
    [][ /\ (pc # "running" => Idle)
        /\ (pc = "running" => (roundActive <=> flashingTarget = NULL))
        /\ (Idle => \A now \in {clock, MaxTime}, r \in Buttons :
                        ~maybeAdvanceGameClock(GameState, now, now, r).roundActive)
        /\ (Idle /\ ~Idle' => pc = "init" /\ pc' = "running" /\ roundActive')
        /\ (~Idle => ~Idle')
        /\ (RoundStarted => Idle \/ Flash)
        /\ (RoundEnded => Flash' \/ gameOver') ]_vars

\* The third round is active.
C20_Witness == roundActive /\ hits + misses = 2 /\ flashingTarget = NULL

\* C21: targetIndex is 0, 1 or 2 in every state; whenever a round has ended
\* and its flash fields are set, flashingTarget is the targetIndex of that
\* round and flashColor is success exactly when hitRecorded is true and fail
\* otherwise; the step that ends a round keeps targetIndex and flashes it.
C21_FlashShowsTarget ==
    /\ [](/\ targetIndex \in Buttons
          /\ (~roundActive /\ flashingTarget # NULL =>
                /\ flashingTarget = targetIndex
                /\ flashColor = (IF hitRecorded THEN "success" ELSE "fail")))
    /\ [][RoundEnded => targetIndex' = targetIndex /\ flashingTarget' = targetIndex]_vars

\* A Flash after a round whose last activated region was not the target
\* (and not region 0, the initial targetIndex).
C21_Witness ==
    /\ Flash
    /\ targetIndex = 2
    /\ lastActivatedIndex = 1
    /\ flashingTarget = 2
    /\ flashColor = "fail"

\* C22: once startCamera has started the loop exactly one processFrame
\* callback is pending in every state (none before, and none after a failed
\* start), and every invocation of processFrame (the early return on a
\* zero-width video, a tick of a running game, a tick after game over)
\* leaves exactly one callback pending.
C22_OneTickPending ==
    /\ [](pending = (IF pc = "running" THEN 1 ELSE 0))
    /\ [][pending > 0 => pending' = 1]_vars

\* A tick ran after the game was over and the next one is pending.
C22_Witness ==
    /\ gameOver
    /\ calls = <<>>
    /\ tickNow = NULL
    /\ pending = 1

\* A step of processFrame past the zero-width return, in the frame sequence:
\* it is not the camera's step, and a frame is stored after it.
ProcessedTick == pending > 0 /\ video' = video /\ previousFrame' # NULL

\* C23: after every processed tick, in an active round, in Flash and after
\* game over alike, the stored previous frame is the frame of that tick, and
\* the mask of a tick that holds a previous frame is computed from the frame
\* stored by the tick before and the frame of this tick.
C23_PreviousIsLastProcessed ==
    [][ ProcessedTick =>
            /\ previousData' = video
            /\ (previousFrame # NULL => diffArgs' = <<previousData, video>>)
            /\ (previousFrame = NULL => diffArgs' = diffArgs) ]_vars

\* A tick after game over compared the stored frame 0 with the frame 1 it
\* read, and stored frame 1.
C23_Witness ==
    /\ gameOver
    /\ calls = <<>>
    /\ diffArgs = <<0, 1>>
    /\ previousData = 1
    /\ video = 1

\* The shortest time between two ticks at different timestamps.
MinTick == CHOOSE d \in TickDeltas \ {0} : \A e \in TickDeltas \ {0} : d <= e

\* C24: while ticks keep occurring at growing timestamps, every active round
\* ends (in Flash or in game over) and every Flash is followed by a new
\* active round, for every deadline that a tick within the explored time
\* can reach; after game over no step changes the phase.
C24_ProgressUnderPolling ==
    /\ (roundActive /\ roundEndsAt + MinTick <= MaxTime) ~> ~roundActive
    /\ (Flash /\ flashEndsAt + MinTick <= MaxTime) ~> roundActive
    /\ [][gameOver => gameOver' /\ ~roundActive' /\ flashingTarget' = flashingTarget]_vars

\* A round started by the tick that saw the end of the Flash of the second
\* missed round.
C24_Witness ==
    /\ roundActive
    /\ calls = <<"startRound">>
    /\ hp = 1
    /\ misses = 2
    /\ tickNow >= flashEndsAt

\* C25: the hit test of a tick runs before its clock test.  A tick that ends
\* the round and finds regions over the threshold sets lastActivatedIndex to
\* the last of them, and that region decides hit or miss; a tick that starts
\* a round leaves lastActivatedIndex unset whatever its hit test found.
C25_HitTestBeforeClock ==
    [][ /\ (RoundEnded /\ tested' /\ exceeded' # {} =>
               /\ lastActivatedIndex' = Max(exceeded')
               /\ hitRecorded' = (Max(exceeded') = targetIndex)
               /\ hp' = (IF Max(exceeded') = targetIndex THEN hp ELSE hp - 1))
        /\ (RoundStarted /\ pc = "running" /\ tested' =>
               /\ lastActivatedIndex' = NULL
               /\ ~targetSeen') ]_vars

\* The tick that ended the first round found regions 0 and 1 over the
\* threshold, and the round with target 1 was a hit.
C25_Witness ==
    /\ calls = <<"endRound">>
    /\ tested
    /\ exceeded = {0, 1}
    /\ targetIndex = 1
    /\ lastActivatedIndex = 1
    /\ hitRecorded
    /\ hits = 1
    /\ misses = 0

\* Every pixel of the frame curr differs from the pixel of prev at the same
\* place by more than the motion threshold (both frames are plain).
AllPixelsChanged(prev, curr) ==
    /\ prev.rect = NoRect /\ prev.dot = NoDot
    /\ curr.rect = NoRect /\ curr.dot = NoDot
    /\ Abs(curr.bg[1] - prev.bg[1]) + Abs(curr.bg[2] - prev.bg[2])
           + Abs(curr.bg[3] - prev.bg[3]) > 50

\* C26: for two frames of the same size that contains the three regions, of
\* odd or even width, in which every pixel changes by more than the motion
\* threshold, every region counts all of its 84 * 84 pixels, all three
\* regions are over the threshold, and the tick of the active round leaves
\* lastActivatedIndex = 2.
C26_EveryRegionActivates ==
    (/\ diffArgs # <<>>
     /\ SameSize(diffArgs[1], diffArgs[2])
     /\ \A idx \in Buttons : RegionInsideFrame(idx, diffArgs[2])
     /\ AllPixelsChanged(diffArgs[1], diffArgs[2]))
    => /\ \A idx \in Buttons : motionCounts[idx] = BUTTON_SIZE * BUTTON_SIZE
       /\ exceeded = Buttons
       /\ lastActivatedIndex = 2

\* A tick on two frames of odd width 101, where the top region starts at
\* x = 8.5, found all three regions over the threshold.
C26_Witness ==
    /\ diffArgs # <<>>
    /\ diffArgs[1].width = 101
    /\ diffArgs[2].width = 101
    /\ diffArgs[1].bg = White
    /\ diffArgs[2].bg = Black
    /\ motionCounts[0] = BUTTON_SIZE * BUTTON_SIZE
    /\ exceeded = Buttons
    /\ lastActivatedIndex = 2

\* The actions triggered by the last hit test.
TriggeredSet == {triggered[i] : i \in 1 .. Len(triggered)}

\* C27: in the snapshots without game mode, a hit test triggers the action
\* of a button exactly when the button's region is over the threshold and
\* the action was never triggered before or was last triggered more than
\* 600 ms before the button's clock read, whatever the other actions did;
\* a trigger records the read as the action's last trigger, so that two
\* consecutive triggers of one action are more than 600 ms apart.
C27_CooldownPerAction ==
    [][ pending > 0 /\ previousFrame # NULL /\ previousFrame' # NULL =>
            \A idx \in Buttons :
                LET action == ButtonAction(idx)
                    last == lastTriggerAt[action]
                    fired == action \in TriggeredSet'
                IN  /\ fired <=> (idx \in exceeded'
                                  /\ (last = NULL \/ readAt'[idx] - last > 600))
                    /\ fired => lastTriggerAt'[action] = readAt'[idx]
                    /\ ~fired => lastTriggerAt'[action] = last
                    /\ (fired /\ last # NULL => lastTriggerAt'[action] - last > 600)
      ]_vars

\* Capture and grayscale were over the threshold in one hit test: capture
\* was within its cooldown and did not trigger, grayscale triggered.
C27_Witness ==
    /\ {0, 1} \subseteq exceeded
    /\ triggered = <<"grayscale">>
    /\ lastTriggerAt["capture"] # NULL
    /\ readAt[0] - lastTriggerAt["capture"] \in 1 .. COOLDOWN_MS
    /\ lastTriggerAt["grayscale"] = readAt[1]
====
